---- MODULE Spec2Model ----
(***************************************************************************)
(* A model of the kopf-k8s-sidecar operator (src/app/sidecar.py): the two  *)
(* Selector predicates that gate every resource event, the dispatch of an  *)
(* event to cru_fn / delete_fn, and the File Store calls they make.        *)
(*                                                                         *)
(* io_helpers (write_file, delete_file) is not part of the sources at      *)
(* hand; its steps are modelled from the written specification (section    *)
(* 4.3): stage in a temporary file, then atomically replace the target.    *)
(***************************************************************************)
EXTENDS Integers, Sequences, FiniteSets, TLC

\* ------------------------------------------------------------------ bounds
MaxName == 1        \* resource names per kind
MaxKey  == 2        \* data entries per resource
MaxVal  == 2        \* distinct contents of a data entry

Kinds == {"ConfigMap", "Secret"}
Names == 1..MaxName
Keys  == 1..MaxKey
Vals  == 1..MaxVal
Ids   == Kinds \X Names

\* Python's None, as returned by os.getenv for an unset variable: a value
\* that equals no string a label or an environment variable can hold.
None == "<None>"

LabelKeys == {"sync", "other"}
LabelVals == {"prod", "dev"}
\* every labels mapping over the model's keys and values (the empty one too)
LabelMaps == UNION {[S -> LabelVals] : S \in SUBSET LabelKeys}

\* the metadata of a resource: a dict that may or may not hold 'labels'
NoLabelsMeta == [x \in {} |-> {}]
MetaOf(L) == [labels |-> L]
Metas == {NoLabelsMeta} \cup {MetaOf(L) : L \in LabelMaps}

\* the spellings of body['kind'] the model knows, and str.lower() on them
KindSpellings == {"ConfigMap", "configmap", "CONFIGMAP", "Secret", "secret", "SECRET"}
Lower(s) ==
    CASE s \in {"ConfigMap", "configmap", "CONFIGMAP"} -> "configmap"
      [] s \in {"Secret", "secret", "SECRET"} -> "secret"
      [] OTHER -> s

VARIABLES
    LABEL,      \* the module-level LABEL, read from the environment at import
    env,        \* the process environment: a function from names to strings
    res,        \* the cluster: each identity's current resource, if any
    files,      \* the target directory: path -> content of the file there
    task,       \* per identity: the handler in flight, or how the last one ended
    sel,        \* the Selector evaluated on one free input (SpecSel)
    boot        \* the operator's start: where it is, what startup_tasks did

vars == <<LABEL, env, res, files, task, sel, boot>>

\* os.getenv(name, default)
getenv(name, default) == IF name \in DOMAIN env THEN env[name] ELSE default

\* ---------------------------------------------------------------- Selector
label_is_satisfied_KeyOnly(meta) ==
    IF "labels" \notin DOMAIN meta THEN FALSE
    ELSE LABEL \in DOMAIN meta.labels

label_is_satisfied(meta) ==
    LET label_value == getenv("LABEL_VALUE", None) IN
    IF "labels" \notin DOMAIN meta THEN FALSE
    ELSE IF label_value = None /\ LABEL \in DOMAIN meta.labels THEN TRUE
    ELSE \E key \in DOMAIN meta.labels :
            key = LABEL /\ meta.labels[key] = label_value

resource_is_desired_NoLower(body) ==
    LET resource == getenv("RESOURCE", "configmap")
        kind == body.kind
    IN resource \in {kind, "both"}

\* RESOURCE defaults to both kinds
resource_is_desired_DefaultBoth(body) ==
    LET resource == getenv("RESOURCE", "both")
        kind == Lower(body.kind)
    IN resource \in {kind, "both"}

resource_is_desired(body) ==
    LET resource == getenv("RESOURCE", "configmap")
        kind == Lower(body.kind)
    IN resource \in {kind, "both"}

\* ------------------------------------------------------------- the cluster
\* The data of a resource: entries 1..n; a revision of the resource gives its
\* entries the content v.
DataChoices == {[k \in 1..n |-> v] : n \in 1..MaxKey, v \in Vals}

\* The label maps the watched resources carry in the reconciler's runs.
MainMetas == {NoLabelsMeta, MetaOf("sync" :> "prod"), MetaOf("sync" :> "dev")}

\* The body kopf hands to the filters and handlers.
BodyOf(id, meta, data) ==
    [kind |-> id[1], name |-> id[2], metadata |-> meta, data |-> data]

Absent == [absent |-> TRUE]
Present(id) == res[id] # Absent

\* every resource an identity can be
BodiesOf(id) == {BodyOf(id, meta, data) : meta \in MainMetas, data \in DataChoices}

\* -------------------------------------------------------------- File Store
\* A file's content: which value it holds, and whether all of it is there.
Whole(v) == [val |-> v, complete |-> TRUE]
Truncated(v) == [val |-> v, complete |-> FALSE]

\* get_env_var_bool('UNIQUE_FILENAMES')
unique_filenames == getenv("UNIQUE_FILENAMES", "false") = "true"

\* the file is named by the entry key whatever the flag says
PathOf_KeyOnly(id, key) == <<"", 0, key>>

\* The file name of a data entry: the entry key, disambiguated by the
\* resource it belongs to when unique filenames are enforced.
PathOf(id, key) ==
    IF unique_filenames THEN <<id[1], id[2], key>> ELSE <<"", 0, key>>

PathsOf(id, data) == {PathOf(id, k) : k \in DOMAIN data}

\* the entry keys in the order a write or a remove goes through them
RECURSIVE KeySeq(_)
KeySeq(S) ==
    IF S = {} THEN <<>>
    ELSE LET k == CHOOSE x \in S : \A y \in S : x <= y
         IN <<k>> \o KeySeq(S \ {k})

\* atomic replace: the target path switches to the staged content in one step
ReplaceFile(f, path, content) ==
    [p \in DOMAIN f \cup {path} |-> IF p = path THEN content ELSE f[p]]

\* removing a file; a file that is not there is no error
RemoveFile(f, path) == [p \in DOMAIN f \ {path} |-> f[p]]

\* ---------------------------------------------------------------- handlers
\* No handler of the identity is running: how the last one ended, and the body
\* of the event it handled (none when the last event was filtered out).
Idle(how, body) ==
    [op |-> "idle", todo |-> <<>>, staged |-> FALSE, body |-> body, last |-> how]
InFlight(id) == task[id].op # "idle"

HandlerFor_ResumeDeletes(event, kind) ==
    IF kind \in {"ConfigMap", "Secret"}
    THEN IF event \in {"create", "update"} THEN "cru_fn"
         ELSE IF event \in {"delete", "resume"} THEN "delete_fn" ELSE "none"
    ELSE "none"

HandlerFor_DeleteWrites(event, kind) ==
    IF kind \in {"ConfigMap", "Secret"}
    THEN IF event \in {"resume", "create", "update", "delete"} THEN "cru_fn" ELSE "none"
    ELSE "none"

HandlerFor_UpdateDeletes(event, kind) ==
    IF kind \in {"ConfigMap", "Secret"}
    THEN IF event \in {"resume", "create"} THEN "cru_fn"
         ELSE IF event \in {"delete", "update"} THEN "delete_fn" ELSE "none"
    ELSE "none"

\* The handler kopf calls for an event: the decorators of lines 79-84 and 91-92.
HandlerFor(event, kind) ==
    IF kind \in {"ConfigMap", "Secret"}
    THEN IF event \in {"resume", "create", "update"} THEN "cru_fn"
         ELSE IF event = "delete" THEN "delete_fn" ELSE "none"
    ELSE "none"

InScope_LabelOnly(body) == label_is_satisfied(body.metadata)

\* when=kopf.all_([label_is_satisfied, resource_is_desired])
InScope(body) == label_is_satisfied(body.metadata) /\ resource_is_desired(body)

\* cru_fn awaits delete_file as delete_fn does
CallOf_BothRemove(handler) ==
    CASE handler = "cru_fn" -> "remove"
      [] handler = "delete_fn" -> "remove"
      [] OTHER -> "idle"

\* The File Store call a handler makes: cru_fn awaits write_file, delete_fn
\* awaits delete_file.
CallOf(handler) ==
    CASE handler = "cru_fn" -> "write"
      [] handler = "delete_fn" -> "remove"
      [] OTHER -> "idle"

\* cru_fn without its except clause
cru_fn_NoExcept(result) ==
    CASE result = "done" -> "ok"
      [] OTHER -> "raised"

\* delete_fn with a bare except around its File Store call
delete_fn_CatchAll(result) ==
    CASE result = "done" -> "ok"
      [] OTHER -> "cancelled"

\* How a handler ends, given how its File Store call ended: both handlers
\* catch asyncio.CancelledError, log it and return; anything else propagates.
cru_fn(result) ==
    CASE result = "done" -> "ok"
      [] result = "CancelledError" -> "cancelled"
      [] OTHER -> "raised"

delete_fn(result) ==
    CASE result = "done" -> "ok"
      [] result = "CancelledError" -> "cancelled"
      [] OTHER -> "raised"

HandlerEnds(op, result) == IF op = "write" THEN cru_fn(result) ELSE delete_fn(result)

\* While a handler is in flight, last tells whether its event repeats the one
\* before it, whose handler returned normally: a resume of a resource that
\* carries the body just written, or a delete event delivered once more.
Again(event, id, body) ==
    IF /\ task[id].last = "ok" /\ task[id].body = body
       /\ \/ event = "resume" /\ Present(id)
          \/ event = "delete" /\ ~Present(id)
    THEN "ok" ELSE "none"

\* the handler returns at once, its File Store call never awaited
Dispatch_NoAwait(event, id, body) ==
    IF InScope(body) /\ HandlerFor(event, body.kind) # "none"
    THEN task' = [task EXCEPT ![id] = Idle("ok", body)]
    ELSE task' = [task EXCEPT ![id] = Idle("none", Absent)]

\* kopf evaluates the filters on the event's body and, when they pass, starts
\* the handler registered for the event.
Dispatch(event, id, body) ==
    IF InScope(body) /\ HandlerFor(event, body.kind) # "none"
    THEN task' = [task EXCEPT ![id] =
                    [op |-> CallOf(HandlerFor(event, body.kind)),
                     todo |-> KeySeq(DOMAIN body.data),
                     staged |-> FALSE,
                     body |-> body,
                     last |-> Again(event, id, body)]]
    ELSE task' = [task EXCEPT ![id] = Idle("none", Absent)]

\* ------------------------------------------------------------------ events
Create(id, meta, data) ==
    /\ ~Present(id) /\ ~InFlight(id)
    /\ res' = [res EXCEPT ![id] = BodyOf(id, meta, data)]
    /\ Dispatch("create", id, BodyOf(id, meta, data))
    /\ UNCHANGED <<LABEL, env, files, sel, boot>>

Update(id, meta, data) ==
    /\ Present(id) /\ ~InFlight(id)
    /\ BodyOf(id, meta, data) # res[id]
    /\ res' = [res EXCEPT ![id] = BodyOf(id, meta, data)]
    /\ Dispatch("update", id, BodyOf(id, meta, data))
    /\ UNCHANGED <<LABEL, env, files, sel, boot>>

Resume(id) ==
    /\ Present(id) /\ ~InFlight(id)
    /\ Dispatch("resume", id, res[id])
    /\ UNCHANGED <<LABEL, env, res, files, sel, boot>>

Delete(id) ==
    /\ Present(id) /\ ~InFlight(id)
    /\ res' = [res EXCEPT ![id] = Absent]
    /\ Dispatch("delete", id, res[id])
    /\ UNCHANGED <<LABEL, env, files, sel, boot>>

\* Delivery is at least once: the delete event whose handler has run is
\* delivered again, with the body it had.
DeleteAgain(id) ==
    /\ ~Present(id) /\ ~InFlight(id)
    /\ task[id].body # Absent
    /\ Dispatch("delete", id, task[id].body)
    /\ UNCHANGED <<LABEL, env, res, files, sel, boot>>

\* -------------------------------------------------- steps of a File Store call
\* what the task becomes once the entry at the head of todo is done
Advance(id) ==
    IF Len(task[id].todo) = 1
    THEN Idle(HandlerEnds(task[id].op, "done"), task[id].body)
    ELSE [task[id] EXCEPT !.todo = Tail(@), !.staged = FALSE]

\* a write that opens the target itself and fills it in place
WriteStage_InPlace(id) ==
    /\ task[id].op = "write" /\ ~task[id].staged
    /\ LET k == Head(task[id].todo) IN
        files' = ReplaceFile(files, PathOf(id, k), Truncated(task[id].body.data[k]))
    /\ task' = [task EXCEPT ![id].staged = TRUE]
    /\ UNCHANGED <<LABEL, env, res, sel, boot>>

\* write_file: the content of the next entry is staged in a temporary file
WriteStage(id) ==
    /\ task[id].op = "write" /\ ~task[id].staged
    /\ task' = [task EXCEPT ![id].staged = TRUE]
    /\ UNCHANGED <<LABEL, env, res, files, sel, boot>>

\* write_file: the staged file atomically replaces the target
WriteReplace(id) ==
    /\ task[id].op = "write" /\ task[id].staged
    /\ LET k == Head(task[id].todo) IN
        files' = ReplaceFile(files, PathOf(id, k), Whole(task[id].body.data[k]))
    /\ task' = [task EXCEPT ![id] = Advance(id)]
    /\ UNCHANGED <<LABEL, env, res, sel, boot>>

\* delete_file: the file of the next entry is removed
RemoveStep(id) ==
    /\ task[id].op = "remove"
    /\ files' = RemoveFile(files, PathOf(id, Head(task[id].todo)))
    /\ task' = [task EXCEPT ![id] = Advance(id)]
    /\ UNCHANGED <<LABEL, env, res, sel, boot>>

\* the runtime cancels the handler while it awaits its File Store call
Cancel(id) ==
    /\ InFlight(id)
    /\ task' = [task EXCEPT ![id] = Idle(HandlerEnds(task[id].op, "CancelledError"), task[id].body)]
    /\ UNCHANGED <<LABEL, env, res, files, sel, boot>>

\* ------------------------------------------------------------ specification
EnvChoices ==
    {e \in UNION {[S -> {"prod", "secret", "both", "bogus", "true"}] :
                    S \in SUBSET {"LABEL_VALUE", "RESOURCE", "UNIQUE_FILENAMES"}} :
        /\ "LABEL_VALUE" \in DOMAIN e => e["LABEL_VALUE"] = "prod"
        /\ "RESOURCE" \in DOMAIN e => e["RESOURCE"] \in {"secret", "both", "bogus"}
        /\ "UNIQUE_FILENAMES" \in DOMAIN e => e["UNIQUE_FILENAMES"] = "true"}

SelUnused == [pc |-> "unused"]

\* startup_tasks has returned; what it did is not looked at
Started == [pc |-> "running"]

Init ==
    /\ LABEL = "sync"
    /\ env \in EnvChoices
    /\ res = [id \in Ids |-> Absent]
    /\ files = [p \in {} |-> Whole(1)]
    /\ task = [id \in Ids |-> Idle("none", Absent)]
    /\ sel = SelUnused
    /\ boot = Started

Next ==
    \/ \E id \in Ids, meta \in MainMetas, data \in DataChoices : Create(id, meta, data)
    \/ \E id \in Ids, meta \in MainMetas, data \in DataChoices : Update(id, meta, data)
    \/ \E id \in Ids : Resume(id)
    \/ \E id \in Ids : Delete(id)
    \/ \E id \in Ids : DeleteAgain(id)
    \/ \E id \in Ids : WriteStage(id)
    \/ \E id \in Ids : WriteReplace(id)
    \/ \E id \in Ids : RemoveStep(id)
    \/ \E id \in Ids : Cancel(id)

Spec == Init /\ [][Next]_vars

\* ------------------------------------------- the Selector on its own (SpecSel)
\* Every environment the Selector may run under: LABEL_VALUE unset or set,
\* RESOURCE unset or set to a valid or an invalid value.
SelEnvChoices ==
    {e \in UNION {[S -> LabelVals \cup {"configmap", "secret", "both", "bogus"}] :
                    S \in SUBSET {"LABEL_VALUE", "RESOURCE"}} :
        /\ "LABEL_VALUE" \in DOMAIN e => e["LABEL_VALUE"] \in LabelVals
        /\ "RESOURCE" \in DOMAIN e =>
              e["RESOURCE"] \in {"configmap", "secret", "both", "bogus"}}

InitSel ==
    /\ LABEL \in LabelKeys
    /\ env \in SelEnvChoices
    /\ res = [id \in Ids |-> Absent]
    /\ files = [p \in {} |-> Whole(1)]
    /\ task = [id \in Ids |-> Idle("none", Absent)]
    /\ sel \in [pc : {"input"}, meta : Metas, kind : KindSpellings,
                label : {<<>>}, desired : {<<>>}]
    /\ boot = Started

\* kopf calls label_is_satisfied(meta=...) on the event
EvalLabel ==
    /\ sel.pc = "input" /\ sel.label = <<>>
    /\ sel' = [sel EXCEPT !.label = <<label_is_satisfied(sel.meta)>>]
    /\ UNCHANGED <<LABEL, env, res, files, task, boot>>

\* kopf calls resource_is_desired(body=...) on the event
EvalDesired ==
    /\ sel.pc = "input" /\ sel.desired = <<>>
    /\ sel' = [sel EXCEPT !.desired = <<resource_is_desired([kind |-> sel.kind])>>]
    /\ UNCHANGED <<LABEL, env, res, files, task, boot>>

NextSel == EvalLabel \/ EvalDesired

SpecSel == InitSel /\ [][NextSel]_vars

\* --------------------------------------------------------------------- C1
\* what the claim says label_is_satisfied returns for labels L (or none),
\* required key k and required value v (None when unset)
C1_Expected(meta, k, v) ==
    IF "labels" \notin DOMAIN meta THEN FALSE
    ELSE IF DOMAIN meta.labels = {} THEN FALSE
    ELSE IF v = None THEN k \in DOMAIN meta.labels
    ELSE k \in DOMAIN meta.labels /\ meta.labels[k] = v

\* C1: for every label map L, required key k and optional required value v,
\* label_is_satisfied is false when there is no labels map or L is empty, true
\* when v is unset and k is a key of L, and when v is set true iff L[k] = v.
C1_LabelSatisfied ==
    sel.pc = "input" /\ sel.label # <<>> =>
        sel.label[1] = C1_Expected(sel.meta, LABEL, getenv("LABEL_VALUE", None))

\* a label check that ran with a required value set, on labels that carry the
\* key with another value as well as a second key, and said no
C1_Witness ==
    /\ sel.pc = "input" /\ sel.label = <<FALSE>>
    /\ "LABEL_VALUE" \in DOMAIN env
    /\ "labels" \in DOMAIN sel.meta
    /\ DOMAIN sel.meta.labels = LabelKeys
    /\ sel.meta.labels[LABEL] # env["LABEL_VALUE"]

\* --------------------------------------------------------------------- C2
KindIs(spelling, k) ==
    \/ k = "configmap" /\ spelling \in {"ConfigMap", "configmap", "CONFIGMAP"}
    \/ k = "secret" /\ spelling \in {"Secret", "secret", "SECRET"}

\* C2: for every event kind K in {configmap, secret}, in any letter case, and
\* every filter F in {configmap, secret, both}, resource_is_desired is true
\* iff F = both or F = K.
C2_ResourceDesired ==
    LET F == getenv("RESOURCE", "configmap") IN
    sel.pc = "input" /\ sel.desired # <<>> /\ F \in {"configmap", "secret", "both"} =>
        sel.desired[1] = (F = "both" \/ KindIs(sel.kind, F))

\* a kind check that passed for a kind spelled with capitals against the
\* lower-case filter naming it
C2_Witness ==
    /\ sel.pc = "input" /\ sel.desired = <<TRUE>>
    /\ sel.kind = "Secret"
    /\ "RESOURCE" \in DOMAIN env /\ env["RESOURCE"] = "secret"

\* --------------------------------------------------------------------- C3
\* The event a step delivers for id, read off the cluster and the task: only
\* Create makes a resource appear, only Delete makes it go, only Update
\* changes it, and only Resume takes an idle task elsewhere without them.
EventOf(id) ==
    CASE ~Present(id) /\ res'[id] # Absent -> "create"
      [] Present(id) /\ res'[id] = Absent -> "delete"
      [] Present(id) /\ res'[id] # Absent /\ res'[id] # res[id] -> "update"
      [] Present(id) /\ res'[id] = res[id] /\ ~InFlight(id)
            /\ task'[id] # task[id] -> "resume"
      [] OTHER -> "none"

\* the body the event carries: the deleted resource for a delete, the
\* resource as it now is for the others
EventBody(id) == IF res'[id] = Absent THEN res[id] ELSE res'[id]

\* C3: an event whose body passes label_is_satisfied and resource_is_desired
\* starts exactly one File Store call, a write for create, update and resume
\* and a remove for delete; an event that fails either predicate starts no
\* call and leaves the files as they are.
C3_EventToCall ==
    [][\A id \in Ids :
        EventOf(id) # "none" =>
            IF /\ label_is_satisfied(EventBody(id).metadata)
               /\ resource_is_desired(EventBody(id))
            THEN /\ task'[id].op = (IF EventOf(id) = "delete" THEN "remove" ELSE "write")
                 /\ task'[id].body = EventBody(id)
                 /\ \A other \in Ids \ {id} : task'[other] = task[other]
                 /\ files' = files
            ELSE /\ \A i \in Ids : task'[i].op = "idle"  \/ task'[i] = task[i]
                 /\ task'[id].op = "idle"
                 /\ files' = files]_vars

\* Scenario C, next to a call that was made: the filter is secret, the
\* ConfigMap carries the required label and got no file, while the delete of
\* the Secret has its remove in flight.
C3_Witness ==
    /\ getenv("RESOURCE", "configmap") = "secret"
    /\ \E n \in Names :
        /\ Present(<<"ConfigMap", n>>)
        /\ label_is_satisfied(res[<<"ConfigMap", n>>].metadata)
        /\ task[<<"ConfigMap", n>>].op = "idle"
        /\ task[<<"Secret", n>>].op = "remove"
        /\ ~Present(<<"Secret", n>>)
    /\ DOMAIN files = {}

\* --------------------------------------------------------------------- C4
Quiescent == \A id \in Ids : ~InFlight(id)

\* every entry of data has its file, holding the entry's content
Materialized(id, data) ==
    \A k \in DOMAIN data :
        /\ PathOf(id, k) \in DOMAIN files
        /\ files[PathOf(id, k)] = Whole(data[k])

\* the files on disk that carry id's name (unique filenames)
FilesOf(id) == {p \in DOMAIN files : p[1] = id[1] /\ p[2] = id[2]}

\* C4 as written, read in its own favour: looked at only while no
\* handler is in flight, with unique filenames, and not for an identity whose
\* last handler was cancelled. The files of an in-scope resource are exactly
\* those of its latest data; a deleted or out-of-scope identity has none.
C4_Original ==
    Quiescent /\ unique_filenames =>
        \A id \in Ids :
            task[id].last # "cancelled" =>
                IF Present(id) /\ InScope(res[id])
                THEN /\ Materialized(id, res[id].data)
                     /\ FilesOf(id) = PathsOf(id, res[id].data)
                ELSE FilesOf(id) = {}

\* C4 (amended): with unique filenames, whenever the latest event of a
\* resource was in scope and its write has completed, every entry of the
\* resource's latest data has its file with that content. (Files of a
\* resource that left the scope, was deleted out of scope or dropped an entry
\* are not removed.)
C4_Amended ==
    unique_filenames =>
        \A id \in Ids :
            Present(id) /\ task[id].op = "idle" /\ task[id].last = "ok" =>
                Materialized(id, res[id].data)

\* both resources written, with two entries each, while unique filenames are on
C4_Witness ==
    /\ unique_filenames
    /\ \A id \in Ids :
        /\ Present(id) /\ task[id].op = "idle" /\ task[id].last = "ok"
        /\ DOMAIN res[id].data = Keys
        /\ Materialized(id, res[id].data)
    /\ \E i, j \in Ids : res[i].data # res[j].data

\* --------------------------------------------------------------------- C5
\* a required label value is configured and the body carries the label key
\* with another value
Mismatch(body) ==
    /\ "LABEL_VALUE" \in DOMAIN env
    /\ "labels" \in DOMAIN body.metadata
    /\ LABEL \in DOMAIN body.metadata.labels
    /\ body.metadata.labels[LABEL] # env["LABEL_VALUE"]

\* the content at a path, the empty sequence when no file is there
FileAt(f, p) == IF p \in DOMAIN f THEN <<f[p]>> ELSE <<>>

\* the step leaves every file id's entries map to as it is
KeepsFilesOf(id) ==
    \A k \in Keys : FileAt(files', PathOf(id, k)) = FileAt(files, PathOf(id, k))

\* C5 as written, in its last part: the files written earlier remain
\* until a delete event for that identity removes them, that is, the delete
\* event of a resource that carries the other value starts their removal.
C5_Original ==
    [][\A id \in Ids :
        /\ Present(id) /\ Mismatch(res[id])
        /\ unique_filenames /\ FilesOf(id) # {}
        /\ EventOf(id) = "delete"
        => task'[id].op = "remove"]_vars

\* C5 (amended): when a required label value is configured and a resource
\* carries the label key with a different value, no event for it (create,
\* update, resume, and delete as well) starts a File Store call or changes a
\* file; the files written for it earlier stay as they are while it carries
\* that value, unless another resource's handler writes or removes a file of
\* the same name (unique filenames off). Only a delete event delivered while
\* the resource is in scope removes them.
C5_Amended ==
    [][\A id \in Ids :
        /\ EventOf(id) # "none" /\ Mismatch(EventBody(id)) =>
                task'[id].op = "idle" /\ files' = files
        /\ files' # files /\ Present(id) /\ Mismatch(res[id])
            /\ (unique_filenames \/ \A other \in Ids \ {id} : ~InFlight(other))
            => KeepsFilesOf(id)
        /\ files' # files /\ unique_filenames /\ ~KeepsFilesOf(id) /\ FilesOf(id)' = {} =>
                task[id].op = "remove"]_vars

\* a resource that carries the other value, was in scope before and still has
\* the files written then
C5_Witness ==
    /\ unique_filenames
    /\ \E id \in Ids :
        /\ Present(id) /\ Mismatch(res[id]) /\ ~InFlight(id)
        /\ FilesOf(id) = PathsOf(id, [k \in Keys |-> 1])

\* ------------------------------------------------ a resync on its own (SpecResync)
\* The operator (re)connects: the cluster holds any resources, the directory
\* holds what an earlier run left there (files of earlier revisions of a
\* resource, or none), and kopf delivers one resume event per resource found.
LeftOvers ==
    {f \in UNION {[P -> {Whole(v) : v \in Vals}] :
                    P \in SUBSET {PathOf(id, k) : id \in Ids, k \in Keys}} :
        \A id \in Ids :
            \/ \A k \in Keys : PathOf(id, k) \notin DOMAIN f
            \/ \E d \in DataChoices : \A k \in DOMAIN d : PathOf(id, k) \in DOMAIN f}

InitResync ==
    /\ LABEL = "sync"
    /\ env \in EnvChoices
    /\ res \in {r \in [Ids -> {Absent} \cup UNION {BodiesOf(id) : id \in Ids}] :
                    \A id \in Ids : r[id] \in {Absent} \cup BodiesOf(id)}
    /\ files \in LeftOvers
    /\ task = [id \in Ids |-> Idle("none", Absent)]
    /\ sel = SelUnused
    /\ boot = Started

\* the resume event of the snapshot for id
ResyncResume(id) == task[id].last = "none" /\ Resume(id)

NextResync ==
    \/ \E id \in Ids : ResyncResume(id)
    \/ \E id \in Ids : WriteStage(id)
    \/ \E id \in Ids : WriteReplace(id)
    \/ \E id \in Ids : Cancel(id)

SpecResync == InitResync /\ [][NextResync]_vars

\* --------------------------------------------------------------------- C6
\* the resources the snapshot lists
Listed == {id \in Ids : Present(id) /\ InScope(res[id])}

\* every resume handler of the snapshot has been started and has returned
ResyncCompleted == \A id \in Listed : ~InFlight(id) /\ task[id].last # "none"

\* C6 as written, with unique filenames granted: once the snapshot is
\* processed, every listed resource has its data on disk, cancellation of an
\* in-flight write included.
C6_Original ==
    unique_filenames /\ ResyncCompleted =>
        \A id \in Listed : Materialized(id, res[id].data)

\* C6 (amended): once the resume handler of a listed resource has returned
\* without having been cancelled, every entry of the snapshot's data for it
\* has its file with that content, whatever the directory held before;
\* this with unique filenames, or while no other resource's handler has run.
C6_Amended ==
    \A id \in Ids :
        /\ Present(id) /\ ~InFlight(id) /\ task[id].last = "ok"
        /\ (unique_filenames \/ \A other \in Ids \ {id} : task[other] = Idle("none", Absent))
        => Materialized(id, res[id].data)

\* a resync that healed a resource whose second entry had been dropped while
\* events were missed: the listed entry is on disk, the stale file as well
C6_Witness ==
    /\ unique_filenames
    /\ \E id \in Ids :
        /\ id \in Listed /\ ~InFlight(id) /\ task[id].last = "ok"
        /\ DOMAIN res[id].data = {1}
        /\ Materialized(id, res[id].data)
        /\ FilesOf(id) = PathsOf(id, [k \in Keys |-> 1])
        /\ files[PathOf(id, 2)] # Whole(res[id].data[1])

\* --------------------------------------------------------------------- C7
\* the handler of id takes a step
Steps(id) == InFlight(id) /\ task'[id] # task[id]

\* C7: when the event a handler is applying repeats the in-scope create,
\* update or resume event applied just before it (same identity, same data),
\* and the files still are as the first application left them, no step of
\* the second application changes any file or adds one; with unique
\* filenames the files are still as the first application left them
\* throughout the second.
C7_WriteIdempotent ==
    [][\A id \in Ids :
        Present(id) /\ InFlight(id) /\ task[id].last = "ok" =>
            /\ unique_filenames => Materialized(id, task[id].body.data)
            /\ Steps(id) /\ Materialized(id, task[id].body.data) => files' = files]_vars

\* the second application of an event with two entries, about to replace the
\* second file, the first being replaced already
C7_Witness ==
    \E id \in Ids :
        /\ Present(id) /\ task[id].op = "write" /\ task[id].last = "ok"
        /\ task[id].staged /\ task[id].todo = <<2>>
        /\ Materialized(id, task[id].body.data)

\* --------------------------------------------------------------------- C8
\* no entry of data has a file
Unmaterialized(id, data) == \A k \in DOMAIN data : PathOf(id, k) \notin DOMAIN files

AllComplete(f) == \A p \in DOMAIN f : f[p].complete

\* C9: when a handler is cancelled while its write or remove is in progress,
\* it ends without raising, the operation is not started again, the
\* cancellation itself changes no file, and no file is left half written.
C9_CancelIsBenign ==
    [][\A id \in Ids :
        Cancel(id) =>
            /\ task'[id].op = "idle"
            /\ task'[id].last = "cancelled"
            /\ task'[id].last # "raised"
            /\ files' = files
            /\ AllComplete(files')]_vars

\* a write of two entries cancelled between them: the first file holds the
\* new content, the second still holds the old one, both complete
C9_Witness ==
    \E id \in Ids :
        /\ Present(id) /\ ~InFlight(id) /\ task[id].last = "cancelled"
        /\ task[id].body = res[id]
        /\ DOMAIN res[id].data = Keys
        /\ FileAt(files, PathOf(id, 1)) = <<Whole(res[id].data[1])>>
        /\ FileAt(files, PathOf(id, 2)) \notin {<<>>, <<Whole(res[id].data[2])>>}
        /\ AllComplete(files)

\* --------------------------------------------------------------------- C10
\* a write in flight that has path p among its targets
Writing(id, p) == task[id].op = "write" /\ p \in PathsOf(id, task[id].body.data)

\* C10: whatever a reader finds at a target path while a write for it is in
\* progress is complete, and it is the content found there before or the new
\* content: a step changes a file under a write only by switching it to the
\* complete new content of a write that is replacing that path, or (another
\* resource's delete, unique filenames off) by removing it.
C10_NoPartialFile ==
    [][/\ AllComplete(files) /\ AllComplete(files')
       /\ \A p \in DOMAIN files \cup DOMAIN files' :
            /\ FileAt(files', p) # FileAt(files, p)
            /\ \E id \in Ids : Writing(id, p)
            => \/ \E id \in Ids :
                    /\ Writing(id, p) /\ task[id].staged
                    /\ p = PathOf(id, Head(task[id].todo))
                    /\ FileAt(files', p) = <<Whole(task[id].body.data[Head(task[id].todo)])>>
               \/ \E id \in Ids :
                    /\ task[id].op = "remove" /\ ~unique_filenames
                    /\ p = PathOf(id, Head(task[id].todo))
                    /\ p \notin DOMAIN files']_vars

\* a write in progress whose new content is staged while the target still
\* holds the old, different content
C10_Witness ==
    \E id \in Ids :
        /\ task[id].op = "write" /\ task[id].staged
        /\ LET k == Head(task[id].todo) IN
            /\ PathOf(id, k) \in DOMAIN files
            /\ files[PathOf(id, k)].complete
            /\ files[PathOf(id, k)].val # task[id].body.data[k]

\* ------------------------------------------- filesystem errors (SpecErr), C11
\* write_file / delete_file raises a filesystem error (permission denied,
\* disk full, path too long): the call stops where it is and the exception
\* reaches the handler that awaits it
FsError(id) ==
    /\ InFlight(id)
    /\ task' = [task EXCEPT ![id] = Idle(HandlerEnds(task[id].op, "OSError"), task[id].body)]
    /\ UNCHANGED <<LABEL, env, res, files, sel, boot>>

\* both kinds watched, any label value accepted, unique filenames on or off
InitErr ==
    /\ Init
    /\ "RESOURCE" \in DOMAIN env /\ env["RESOURCE"] = "both"
    /\ "LABEL_VALUE" \notin DOMAIN env

NextErr ==
    \/ Next
    \/ \E id \in Ids : FsError(id)

SpecErr == InitErr /\ [][NextErr]_vars

\* C11: a filesystem error raised during a write or a remove is not swallowed
\* by cru_fn or delete_fn: the handler ends by raising it, with the files as
\* the failed call left them, and the handler does not try again: after the
\* failure the resource's task only starts again with a new event.
C11_ErrorPropagates ==
    [][\A id \in Ids :
        /\ FsError(id) =>
              /\ task'[id].op = "idle"
              /\ task'[id].last = "raised"
              /\ task'[id].last \notin {"ok", "cancelled"}
              /\ files' = files
        /\ (task[id].last = "raised" /\ task'[id] # task[id]) =>
              (EventOf(id) # "none" \/ DeleteAgain(id))]_vars

\* a remove that failed: the resource is gone from the cluster, its handler
\* raised, and a file of it is still in the directory
C11_Witness ==
    \E id \in Ids :
        /\ ~Present(id) /\ ~InFlight(id) /\ task[id].last = "raised"
        /\ task[id].body # Absent
        /\ \E k \in DOMAIN task[id].body.data :
              FileAt(files, PathOf(id, k)) = <<Whole(task[id].body.data[k])>>

\* ------------------------------------------------ the operator's start (SpecStartup)
\* misc.get_required_env_var(name): the value, wrapped, or <<>> when the
\* variable is not set and the call raises
get_required_env_var(name) ==
    IF name \in DOMAIN env THEN <<env[name]>> ELSE <<>>

\* int(): a string of decimal digits to the number it denotes
RECURSIVE int(_)
int(digits) ==
    IF digits = <<>> THEN 0
    ELSE int(SubSeq(digits, 1, Len(digits) - 1)) * 10 + digits[Len(digits)]

\* misc.get_env_var_int(name, default, logger)
get_env_var_int(name, default) ==
    IF name \in DOMAIN env THEN int(env[name]) ELSE default

\* misc.get_env_var_bool(name)
get_env_var_bool(name) == getenv(name, "false") = "true"

\* The operator before anything of the module has run: kopf's settings are
\* kopf's own, nothing is logged, no folder has been asked for.
Unset == <<>>
BootInit ==
    [pc |-> "import",
     ensured |-> <<>>,
     log |-> {},
     settings |-> [finalizer |-> "<kopf>", client_timeout |-> Unset,
                   server_timeout |-> Unset, posting |-> Unset]]

\* one variable of the environment: not set, or set to one of the values
Opt(name, values) == {[x \in {} |-> {}]} \cup {name :> v : v \in values}

\* Every environment the operator is started in.
StartEnvChoices ==
    {l @@ f @@ r @@ c @@ s @@ p @@ u :
        l \in Opt("LABEL", {"sync"}),
        f \in Opt("FOLDER", {"/tmp/"}),
        r \in Opt("RESOURCE", {"configmap", "secret", "both", "bogus", "ConfigMap"}),
        c \in Opt("WATCH_CLIENT_TIMEOUT", {<<5, 0, 0>>, <<7, 0, 0>>}),
        s \in Opt("WATCH_SERVER_TIMEOUT", {<<5, 0, 0>>, <<7, 0, 0>>}),
        p \in Opt("EVENT_LOGGING", {"true"}),
        u \in Opt("UNIQUE_FILENAMES", {"true"})}

\* the import does without LABEL
Import_Optional ==
    /\ boot.pc = "import"
    /\ LABEL' = getenv("LABEL", None)
    /\ boot' = [boot EXCEPT !.pc = "startup"]
    /\ UNCHANGED <<env, res, files, task, sel>>

\* Importing the module: LABEL = get_required_env_var('LABEL'). Without the
\* variable the import raises and the operator does not start.
Import ==
    /\ boot.pc = "import"
    /\ LET label == get_required_env_var("LABEL") IN
        IF label = <<>>
        THEN LABEL' = LABEL /\ boot' = [boot EXCEPT !.pc = "failed"]
        ELSE LABEL' = label[1] /\ boot' = [boot EXCEPT !.pc = "startup"]
    /\ UNCHANGED <<env, res, files, task, sel>>

valid_resources_Loose == {"configmap", "secret", "both", "bogus"}

valid_resources == {"configmap", "secret", "both"}

\* the check of RESOURCE: what it logs
CheckResource ==
    LET resource == getenv("RESOURCE", "configmap") IN
    IF resource \notin valid_resources THEN {"error: RESOURCE"} ELSE {}

CheckTimeouts_OrEqual(client_timeout, server_timeout) ==
    IF client_timeout <= server_timeout THEN {"warning: client timeout"} ELSE {}

\* the check of the two watch timeouts: what it logs
CheckTimeouts(client_timeout, server_timeout) ==
    IF client_timeout < server_timeout THEN {"warning: client timeout"} ELSE {}

\* startup_tasks from create_folder on, given the folder
Configure(folder) ==
    LET client_timeout == get_env_var_int("WATCH_CLIENT_TIMEOUT", 660)
        server_timeout == get_env_var_int("WATCH_SERVER_TIMEOUT", 600)
    IN [pc |-> "running",
        ensured |-> Append(boot.ensured, folder),
        log |-> boot.log \cup CheckResource
                    \cup {"info: client timeout", "info: server timeout"}
                    \cup CheckTimeouts(client_timeout, server_timeout)
                    \cup (IF get_env_var_bool("UNIQUE_FILENAMES")
                          THEN {"info: unique filenames"} ELSE {}),
        settings |-> [finalizer |-> "kopf.zalando.org/K8sSidecarFinalizerMarker",
                      client_timeout |-> <<client_timeout>>,
                      server_timeout |-> <<server_timeout>>,
                      posting |-> <<get_env_var_bool("EVENT_LOGGING")>>]]

\* FOLDER is looked for only once everything else is done
startup_tasks_FolderLast ==
    /\ boot.pc = "startup"
    /\ LET folder == get_required_env_var("FOLDER") IN
        IF folder = <<>>
        THEN boot' = [Configure("") EXCEPT !.pc = "failed"]
        ELSE boot' = Configure(folder[1])
    /\ UNCHANGED <<LABEL, env, res, files, task, sel>>

\* @kopf.on.startup(): startup_tasks
startup_tasks ==
    /\ boot.pc = "startup"
    /\ LET folder == get_required_env_var("FOLDER") IN
        IF folder = <<>>
        THEN boot' = [boot EXCEPT !.pc = "failed"]
        ELSE boot' = Configure(folder[1])
    /\ UNCHANGED <<LABEL, env, res, files, task, sel>>

\* "the other handlers won't be initialized until these tasks are complete"
Running == boot.pc = "running"

\* the resources of the start's runs: labelled as asked for, one entry
StartMeta == MetaOf("sync" :> "prod")
StartData == [k \in {1} |-> 1]

InitStartup ==
    /\ LABEL = None
    /\ env \in StartEnvChoices
    /\ res = [id \in Ids |-> Absent]
    /\ files = [p \in {} |-> Whole(1)]
    /\ task = [id \in Ids |-> Idle("none", Absent)]
    /\ sel = SelUnused
    /\ boot = BootInit

NextStartup ==
    \/ Import
    \/ startup_tasks
    \/ Running /\ \E id \in Ids : Create(id, StartMeta, StartData)
    \/ Running /\ \E id \in Ids : Resume(id)
    \/ Running /\ \E id \in Ids : Delete(id)
    \/ Running /\ \E id \in Ids : WriteStage(id)
    \/ Running /\ \E id \in Ids : WriteReplace(id)
    \/ Running /\ \E id \in Ids : RemoveStep(id)

SpecStartup == InitStartup /\ [][NextStartup]_vars

\* --------------------------------------------------------------------- C12
\* an event has reached the operator: a resource is known to it, a handler
\* has run or runs, or a file is there
Seen ==
    \/ \E id \in Ids : Present(id) \/ task[id] # Idle("none", Absent)
    \/ DOMAIN files # {}

\* C12: when LABEL or FOLDER is not configured the start fails (the import for
\* LABEL, startup_tasks for FOLDER) and no event is ever processed; otherwise
\* the start does not fail, the target folder is ensured exactly once, and no
\* event is processed before that.
C12_StartupGating ==
    /\ ("LABEL" \notin DOMAIN env /\ boot.pc # "import") => boot.pc = "failed"
    /\ ("FOLDER" \notin DOMAIN env /\ boot.pc \notin {"import", "startup"})
            => boot.pc = "failed"
    /\ ("LABEL" \notin DOMAIN env \/ "FOLDER" \notin DOMAIN env)
            => ~Running /\ ~Seen /\ boot.ensured = <<>>
    /\ boot.pc = "failed" => ~Seen
    /\ ("LABEL" \in DOMAIN env /\ "FOLDER" \in DOMAIN env) =>
            /\ boot.pc # "failed"
            /\ boot.pc # "import" => LABEL = env["LABEL"]
            /\ boot.ensured = (IF Running THEN <<env["FOLDER"]>> ELSE <<>>)
            /\ Seen => Running /\ boot.ensured = <<env["FOLDER"]>>

\* started with both settings, the folder ensured once, a first write running
C12_Witness ==
    /\ Running /\ boot.ensured = <<"/tmp/">> /\ LABEL = "sync"
    /\ \E id \in Ids : task[id].op = "write"

\* --------------------------------------------------------------------- C13
\* C13: the configured RESOURCE (configmap when unset) is outside
\* {configmap, secret, both} exactly when startup_tasks logs it as an error;
\* with such a value the start still completes, resource_is_desired is false
\* for both kinds however they are spelled, and no handler runs and no file
\* is written or removed.
C13_InvalidFilter ==
    LET F == getenv("RESOURCE", "configmap")
        invalid == F \notin {"configmap", "secret", "both"}
    IN /\ Running => ("error: RESOURCE" \in boot.log <=> invalid)
       /\ (invalid /\ "LABEL" \in DOMAIN env /\ "FOLDER" \in DOMAIN env)
            => boot.pc # "failed"
       /\ invalid =>
            /\ \A kind \in KindSpellings : ~resource_is_desired([kind |-> kind])
            /\ \A id \in Ids : task[id] = Idle("none", Absent)
            /\ DOMAIN files = {}

\* RESOURCE=ConfigMap: reported, the operator runs, a labelled configmap and
\* a labelled secret have both been created, and nothing was done for them
C13_Witness ==
    /\ Running /\ getenv("RESOURCE", "configmap") = "ConfigMap"
    /\ "error: RESOURCE" \in boot.log
    /\ \A id \in Ids : Present(id) /\ label_is_satisfied(res[id].metadata)
    /\ \A id \in Ids : task[id] = Idle("none", Absent)
    /\ DOMAIN files = {}

\* ------------------------------------- the Selector on any event (SpecTotal), C14
\* how a call ends: it returns a value, or it raises
Returned(v) == [value |-> v]
Raised(e) == [raised |-> e]

\* The bodies the filters may be handed, well formed or not: with or without
\* a kind, with or without a labels map in the metadata.
EventBodies ==
    {[kind |-> k, metadata |-> meta] : k \in KindSpellings, meta \in Metas}
        \cup {[metadata |-> meta] : meta \in Metas}

\* label_is_satisfied(meta=body['metadata']): 'labels' not in meta is asked
\* before meta['labels'] is read, so every path returns
call_label_is_satisfied(body) == Returned(label_is_satisfied(body.metadata))

\* resource_is_desired(body=body): body['kind'] is read unguarded, a KeyError
\* when the body has no kind
call_resource_is_desired(body) ==
    IF "kind" \notin DOMAIN body THEN Raised("KeyError")
    ELSE Returned(resource_is_desired(body))

InitTotal ==
    /\ LABEL \in LabelKeys
    /\ env \in SelEnvChoices
    /\ res = [id \in Ids |-> Absent]
    /\ files = [p \in {} |-> Whole(1)]
    /\ task = [id \in Ids |-> Idle("none", Absent)]
    /\ sel \in [pc : {"event"}, body : EventBodies, label : {<<>>}, desired : {<<>>}]
    /\ boot = Started

\* kopf evaluates the first filter of when=kopf.all_([...])
FilterLabel ==
    /\ sel.pc = "event" /\ sel.label = <<>>
    /\ sel' = [sel EXCEPT !.label = <<call_label_is_satisfied(sel.body)>>]
    /\ UNCHANGED <<LABEL, env, res, files, task, boot>>

\* kopf evaluates the second filter
FilterDesired ==
    /\ sel.pc = "event" /\ sel.desired = <<>>
    /\ sel' = [sel EXCEPT !.desired = <<call_resource_is_desired(sel.body)>>]
    /\ UNCHANGED <<LABEL, env, res, files, task, boot>>

NextTotal == FilterLabel \/ FilterDesired

SpecTotal == InitTotal /\ [][NextTotal]_vars

\* C14: for every event, a missing labels map or a missing kind included,
\* neither Selector predicate raises, and a missing labels map makes
\* label_is_satisfied false.
C14_SelectorTotal ==
    /\ sel.label # <<>> =>
          /\ "raised" \notin DOMAIN sel.label[1]
          /\ "labels" \notin DOMAIN sel.body.metadata => sel.label[1] = Returned(FALSE)
    /\ sel.desired # <<>> => "raised" \notin DOMAIN sel.desired[1]

\* --------------------------------------------------------------------- C15
\* the latest event of id was a create, update or resume in scope and its
\* write has returned normally
Written(id) ==
    /\ Present(id) /\ task[id].op = "idle" /\ task[id].last = "ok"
    /\ task[id].body = res[id]

\* no path is a file name of two resources
DisjointPaths ==
    \A id \in Ids : \A other \in Ids \ {id} :
        \A d1 \in DataChoices, d2 \in DataChoices :
            PathsOf(id, d1) \cap PathsOf(other, d2) = {}

\* C15 as written: unique filenames on or off, whatever the order in which
\* the events of two resources were applied, once the writes of both have
\* completed the directory holds the latest data of both.
C15_Original ==
    \A id \in Ids : \A other \in Ids \ {id} :
        Written(id) /\ Written(other) =>
            Materialized(id, res[id].data) /\ Materialized(other, res[other].data)

\* C15 (amended): with unique filenames on, no two resources share a file
\* name, a step changes files of the one resource whose handler takes it and
\* leaves every other resource's handler as it is, and once the writes of two
\* resources have completed, in whatever order their steps were taken, the
\* directory holds the latest data of both. (With unique filenames off a file
\* is named by its entry key alone: a configmap and a secret with the same
\* key share the file, which holds the data of whichever was written last.)
C15_Amended ==
    [][unique_filenames =>
        /\ files' # files =>
              /\ DisjointPaths
              /\ \A p \in DOMAIN files \cup DOMAIN files' :
                    FileAt(files', p) # FileAt(files, p) =>
                        \E id \in Ids :
                            /\ InFlight(id) /\ p[1] = id[1] /\ p[2] = id[2]
                            /\ \A other \in Ids \ {id} : task'[other] = task[other]
        /\ \A id \in Ids : \A other \in Ids \ {id} :
              Written(id) /\ Written(other) =>
                  Materialized(id, res[id].data) /\ Materialized(other, res[other].data)]_vars

\* unique filenames on: a configmap and a secret with the same entry key and
\* different contents, both written, and a further step is taken
C15_Witness ==
    /\ unique_filenames
    /\ \E id \in Ids : \E other \in Ids \ {id} :
          /\ Written(id) /\ Written(other)
          /\ res[id].data[1] # res[other].data[1]
          /\ files[PathOf(id, 1)] = Whole(res[id].data[1])
          /\ files[PathOf(other, 1)] = Whole(res[other].data[1])

\* ---------------------------- the environment changed after the start (SpecReconf), C16
\* the bodies of the events: either kind, without labels or with the label
SelectBodies == {[kind |-> k, metadata |-> meta] : k \in Kinds, meta \in MainMetas}

\* An operator that has started, and one event it will be handed twice: its
\* decision on it then, and its decision on it later.
InitReconf ==
    /\ LABEL = "sync"
    /\ env \in SelEnvChoices
    /\ res = [id \in Ids |-> Absent]
    /\ files = [p \in {} |-> Whole(1)]
    /\ task = [id \in Ids |-> Idle("none", Absent)]
    /\ sel \in [pc : {"started"}, body : SelectBodies, first : {<<>>}, later : {<<>>}]
    /\ boot = Started

\* kopf evaluates when=kopf.all_([label_is_satisfied, resource_is_desired])
\* on the event
Select ==
    /\ sel.pc = "started" /\ sel.first = <<>>
    /\ sel' = [sel EXCEPT !.first = <<InScope(sel.body)>>]
    /\ UNCHANGED <<LABEL, env, res, files, task, boot>>

\* os.environ[name] = value, in the running process
Setenv(name, value) ==
    /\ sel.pc = "started" /\ sel.first # <<>> /\ sel.later = <<>>
    /\ getenv(name, None) # value
    /\ env' = [n \in DOMAIN env \cup {name} |-> IF n = name THEN value ELSE env[n]]
    /\ UNCHANGED <<LABEL, res, files, task, sel, boot>>

\* kopf evaluates the filters on a later event with the same body
SelectLater ==
    /\ sel.pc = "started" /\ sel.first # <<>> /\ sel.later = <<>>
    /\ sel' = [sel EXCEPT !.later = <<InScope(sel.body)>>]
    /\ UNCHANGED <<LABEL, env, res, files, task, boot>>

NextReconf ==
    \/ Select
    \/ \E value \in LabelVals : Setenv("LABEL_VALUE", value)
    \/ \E value \in {"configmap", "secret", "both", "bogus"} : Setenv("RESOURCE", value)
    \/ SelectLater

SpecReconf == InitReconf /\ [][NextReconf]_vars

\* C16: the configuration is consumed once, at the start: when LABEL_VALUE
\* or RESOURCE changes after the start, the Selector decides on a later
\* event as it decided on the same event before the change.
C16_ConsumedOnce ==
    sel.later # <<>> => sel.later = sel.first

\* --------------------------------------------------------------------- C17
\* C17: with RESOURCE not set the filter is configmap: resource_is_desired
\* holds for a kind exactly when it is a configmap's, however spelled; every
\* configmap event whose labels satisfy label_is_satisfied starts its
\* handler, and every secret event starts none and changes no file, so that
\* no handler ever runs for a secret.
C17_DefaultConfigmap ==
    []["RESOURCE" \notin DOMAIN env =>
        /\ \A k \in KindSpellings :
              resource_is_desired([kind |-> k]) <=> Lower(k) = "configmap"
        /\ \A id \in Ids :
              /\ id[1] = "Secret" => task'[id] = Idle("none", Absent)
              /\ EventOf(id) # "none" =>
                    IF id[1] = "Secret"
                    THEN files' = files
                    ELSE label_is_satisfied(EventBody(id).metadata) =>
                            /\ task'[id].op = (IF EventOf(id) = "delete"
                                               THEN "remove" ELSE "write")
                            /\ task'[id].body = EventBody(id)]_vars

\* RESOURCE not set: a labelled configmap is being written, a secret with the
\* same label is there and nothing was started for it
C17_Witness ==
    /\ "RESOURCE" \notin DOMAIN env
    /\ \E id \in Ids :
          /\ id[1] = "ConfigMap" /\ Present(id) /\ task[id].op = "write"
          /\ label_is_satisfied(res[id].metadata)
    /\ \E id \in Ids :
          /\ id[1] = "Secret" /\ Present(id) /\ task[id] = Idle("none", Absent)
          /\ label_is_satisfied(res[id].metadata)

\* --------------------------------------------------------------------- C18
\* C18: once startup_tasks has returned, the warning about the watch
\* timeouts has been logged exactly when the client timeout is below the
\* server timeout, and in either case the watching settings hold the two
\* configured values (660 and 600 where not set); and a start that has LABEL
\* and FOLDER never fails, whatever the timeouts are.
C18_TimeoutWarning ==
    LET client == IF "WATCH_CLIENT_TIMEOUT" \in DOMAIN env
                  THEN int(env["WATCH_CLIENT_TIMEOUT"]) ELSE 660
        server == IF "WATCH_SERVER_TIMEOUT" \in DOMAIN env
                  THEN int(env["WATCH_SERVER_TIMEOUT"]) ELSE 600
    IN /\ Running =>
            /\ "warning: client timeout" \in boot.log <=> client < server
            /\ boot.settings.client_timeout = <<client>>
            /\ boot.settings.server_timeout = <<server>>
       /\ ("LABEL" \in DOMAIN env /\ "FOLDER" \in DOMAIN env) => boot.pc # "failed"
       /\ ~Running => "warning: client timeout" \notin boot.log

\* the client timeout set to 500 and the server's left at its default 600:
\* warned, both applied, the operator runs
C18_Witness ==
    /\ Running
    /\ "WATCH_CLIENT_TIMEOUT" \in DOMAIN env /\ env["WATCH_CLIENT_TIMEOUT"] = <<5, 0, 0>>
    /\ "WATCH_SERVER_TIMEOUT" \notin DOMAIN env
    /\ "warning: client timeout" \in boot.log
    /\ boot.settings.client_timeout = <<500>>
    /\ boot.settings.server_timeout = <<600>>

\* --------------------------------------------------------------------- C20
\* C20: when FOLDER is not set, startup_tasks fails in the step it starts
\* in: no folder has been asked for, the finalizer, the two watch timeouts
\* and the event posting are as kopf had them, nothing has been logged and
\* no file is touched; and so it stays.
C20_FailFast ==
    [][/\ (boot.pc = "startup" /\ boot' # boot /\ "FOLDER" \notin DOMAIN env) =>
            /\ boot'.pc = "failed"
            /\ boot'.ensured = <<>>
            /\ boot'.settings = BootInit.settings
            /\ boot'.log = boot.log
            /\ files' = files
       /\ boot.pc = "failed" =>
            /\ boot.ensured = <<>>
            /\ boot.settings = BootInit.settings
            /\ boot' = boot]_vars

\* LABEL set, FOLDER not, timeouts and event posting configured: the start
\* has failed and settings and folder are untouched
C20_Witness ==
    /\ boot.pc = "failed"
    /\ "LABEL" \in DOMAIN env /\ "FOLDER" \notin DOMAIN env
    /\ {"WATCH_CLIENT_TIMEOUT", "WATCH_SERVER_TIMEOUT", "EVENT_LOGGING"} \subseteq DOMAIN env
    /\ boot.ensured = <<>>
    /\ boot.settings = BootInit.settings

\* ------------------------------------------------- convergence (SpecLive), C19
\* The resources of the convergence runs: a configmap and a secret, both
\* labelled and in scope, with the same entry keys and different contents.
LiveData(id) == [k \in Keys |-> IF id[1] = "ConfigMap" THEN 1 ELSE MaxVal]

\* both kinds watched, unique filenames on or off; the resources are there
\* and stay as they are, the directory is empty
InitLive ==
    /\ LABEL = "sync"
    /\ env \in {e \in EnvChoices :
                    /\ "RESOURCE" \in DOMAIN e /\ e["RESOURCE"] = "both"
                    /\ "LABEL_VALUE" \notin DOMAIN e}
    /\ res = [id \in Ids |-> BodyOf(id, StartMeta, LiveData(id))]
    /\ files = [p \in {} |-> Whole(1)]
    /\ task = [id \in Ids |-> Idle("none", Absent)]
    /\ sel = SelUnused
    /\ boot = Started

NextLive ==
    \/ \E id \in Ids : Resume(id)
    \/ \E id \in Ids : WriteStage(id)
    \/ \E id \in Ids : WriteReplace(id)
    \/ \E id \in Ids : Cancel(id)
    \/ \E id \in Ids : FsError(id)

\* What the claim assumes of the runs: resume events keep being delivered,
\* and writes are not cancelled or failed for ever: a step of a write that
\* can be taken again and again is taken.
LiveFairness ==
    \A id \in Ids :
        /\ SF_vars(Resume(id))
        /\ \A n \in 1..MaxKey :
              /\ SF_vars(WriteStage(id) /\ Len(task[id].todo) = n)
              /\ SF_vars(WriteReplace(id) /\ Len(task[id].todo) = n)

SpecLive == InitLive /\ [][NextLive]_vars /\ LiveFairness

\* the last handler of id was cancelled or raised and its files are not
\* those of its data
OutOfSync(id) ==
    /\ Present(id) /\ InScope(res[id])
    /\ task[id].op = "idle" /\ task[id].last \in {"cancelled", "raised"}
    /\ ~Materialized(id, res[id].data)

\* C19 as written: under the fairness above, a resource left out of sync by
\* a cancelled or failed write has, at some later time, every entry of its
\* latest data on disk with its content.
C19_Original ==
    \A id \in Ids : OutOfSync(id) ~> Materialized(id, res[id].data)

\* C19 (amended): the same, with unique filenames on. (With the flag off a
\* configmap and a secret with the same entry keys write the same files, and
\* their writes can alternate for ever so that the files never hold all the
\* data of one of them.)
C19_Amended ==
    \A id \in Ids :
        (unique_filenames /\ OutOfSync(id)) ~> Materialized(id, res[id].data)

\* unique filenames on: a write that raised after its first entry, whose
\* file is there, the second entry's is not
C19_Witness ==
    /\ unique_filenames
    /\ \E id \in Ids :
          /\ OutOfSync(id) /\ task[id].last = "raised"
          /\ FileAt(files, PathOf(id, 1)) = <<Whole(res[id].data[1])>>
          /\ FileAt(files, PathOf(id, 2)) = <<>>

====
